---- MODULE Spec2Model ----
(***************************************************************************)
(* Model of taxi/templatetags/query_transform.py: the template tag         *)
(* query_transform(request, **kwargs), which copies request.GET, applies   *)
(* the keyword overrides to the copy and returns the copy url-encoded.     *)
(*                                                                         *)
(* A string is a sequence of one-character strings.  A QueryDict is an     *)
(* insertion-ordered dict of value lists: a sequence of entries            *)
(* [k |-> key, vs |-> list of values] with pairwise distinct keys.         *)
(* QueryDict objects live in a heap keyed by object identity, so that      *)
(* "works on a copy" and "works on the caller's object" are different.     *)
(***************************************************************************)
EXTENDS Integers, Sequences, FiniteSets, TLC

\* ------------------------------------------------------------------ bounds

\* Most key=value pairs in the query string request.GET was parsed from.
MaxPairs == 2

\* Most values per parameter name in the inputs with repeated names.
MaxVals == 2

\* ------------------------------------------------------------------ values

\* Python values that reach the tag: str, int, bool and None.
StrV(s) == [t |-> "str", n |-> 0, s |-> s]
IntV(n) == [t |-> "int", n |-> n, s |-> <<>>]
BoolV(b) == [t |-> "bool", n |-> (IF b THEN 1 ELSE 0), s |-> <<>>]
None == [t |-> "none", n |-> 0, s |-> <<>>]

DigitChar(d) ==
    CASE d = 0 -> "0" [] d = 1 -> "1" [] d = 2 -> "2" [] d = 3 -> "3"
      [] d = 4 -> "4" [] d = 5 -> "5" [] d = 6 -> "6" [] d = 7 -> "7"
      [] d = 8 -> "8" [] d = 9 -> "9"

RECURSIVE IntStr(_)
IntStr(n) ==
    IF n < 10 THEN <<DigitChar(n)>>
    ELSE IntStr(n \div 10) \o <<DigitChar(n % 10)>>

\* str(v), as QueryDict.urlencode applies it to every stored value.
Str(v) ==
    CASE v.t = "str" -> v.s
      [] v.t = "int" -> IntStr(v.n)
      [] v.t = "bool" -> (IF v.n = 1 THEN <<"T", "r", "u", "e">>
                          ELSE <<"F", "a", "l", "s", "e">>)
      [] v.t = "none" -> <<"N", "o", "n", "e">>

\* ------------------------------------------------------- input domains

\* Parameter names: the empty name, a plain one, one with reserved characters.
Keys == { <<>>, <<"k">>, <<"&", "=">> }

\* The names used where each may carry several values.
MultiKeys == { <<"k">>, <<"&", "=">> }

\* The names, the query string and the overrides of the docstring's examples.
foo == <<"f", "o", "o">>
bar == <<"b", "a", "r">>
baz == <<"b", "a", "z">>

DocPairs == { <<foo, StrV(<<"1">>)>>, <<bar, StrV(<<"2">>)>> }

DocOverrides ==
    { <<bar, IntV(3)>>, <<foo, StrV(baz)>>,
      <<foo, StrV(<<"o", "n", "e">>)>>, <<bar, StrV(<<"t", "w", "o">>)>>,
      <<baz, IntV(99)>>, <<foo, None>>, <<bar, None>> }

\* Values a parsed query string holds (always strings).
ParamVals == { StrV(<<"1">>), StrV(<<" ", "%", "+">>) }

\* The value used where the names vary: one made of reserved characters.
ReservedVals == { StrV(<<" ", "%", "+">>) }

\* Values a keyword override may carry.
OverrideVals == { None, IntV(0), BoolV(FALSE), StrV(<<>>), StrV(<<"=", "&">>) }

\* ------------------------------------------------------------ QueryDict

KeysOf(d) == { d[j].k : j \in 1..Len(d) }

HasKey(d, k) == \E j \in 1..Len(d) : d[j].k = k

IndexOf(d, k) == CHOOSE j \in 1..Len(d) : d[j].k = k

\* QueryDict.getlist(k): the values of k, [] when k is missing.
GetList(d, k) == IF HasKey(d, k) THEN d[IndexOf(d, k)].vs ELSE <<>>

\* MultiValueDict.appendlist(k, v), which the query-string parser calls per pair.
AppendList(d, k, v) ==
    IF HasKey(d, k)
    THEN [d EXCEPT ![IndexOf(d, k)].vs = Append(@, v)]
    ELSE Append(d, [k |-> k, vs |-> <<v>>])

RECURSIVE FromPairs(_)
FromPairs(ps) ==
    IF ps = <<>> THEN <<>>
    ELSE LET n == Len(ps)
         IN AppendList(FromPairs(SubSeq(ps, 1, n - 1)), ps[n][1], ps[n][2])

\* Variants of SetItem: the value is added to the list of k (what
\* QueryDict.update does), or k is deleted and inserted again.
SetItemAppend(d, k, v) == AppendList(d, k, v)

SetItemMoveToEnd(d, k, v) ==
    Append(SelectSeq(d, LAMBDA e : e.k # k), [k |-> k, vs |-> <<v>>])

\* updated[k] = v: the value list of k becomes [v]; an existing key keeps its
\* place in the dict, a new key goes last.
SetItem(d, k, v) ==
    IF HasKey(d, k)
    THEN [d EXCEPT ![IndexOf(d, k)].vs = <<v>>]
    ELSE Append(d, [k |-> k, vs |-> <<v>>])

\* Variant of Pop: only the last value of k is removed.
PopLastValue(d, k) ==
    IF HasKey(d, k) /\ Len(GetList(d, k)) > 1
    THEN [d EXCEPT ![IndexOf(d, k)].vs = SubSeq(@, 1, Len(@) - 1)]
    ELSE SelectSeq(d, LAMBDA e : e.k # k)

\* updated.pop(k, 0): k and all its values leave the dict; a missing k is
\* answered by the default and nothing changes.
Pop(d, k) == SelectSeq(d, LAMBDA e : e.k # k)

\* Variant of PopRaises: the default is not honoured.
PopRaisesNoDefault(d, k, hasDefault) == ~HasKey(d, k)

\* Whether d.pop(k, ...) raises KeyError: only for a missing k and no default.
PopRaises(d, k, hasDefault) == ~hasDefault /\ ~HasKey(d, k)


\* ------------------------------------------------------------ urlencode

\* Characters quote_plus leaves as they are: letters, digits and "_.-~".
Unreserved ==
    { "a", "b", "e", "f", "k", "l", "n", "o", "r", "s", "t", "u", "w", "z",
      "F", "N", "T", "_", ".", "-", "~",
      "0", "1", "2", "3", "4", "5", "6", "7", "8", "9" }

\* The two hex digits of a reserved character's code.
HexCode(c) ==
    CASE c = "&" -> <<"2", "6">>
      [] c = "=" -> <<"3", "D">>
      [] c = "+" -> <<"2", "B">>
      [] c = "%" -> <<"2", "5">>
      [] c = " " -> <<"2", "0">>

Reserved == { "&", "=", "+", "%", " " }

\* Variants of QuoteChar: nothing is quoted; "+" is taken for a safe character.
QuoteCharRaw(c) == <<c>>

QuoteCharPlusSafe(c) ==
    IF c \in Unreserved \/ c = "+" THEN <<c>>
    ELSE IF c = " " THEN <<"+">>
    ELSE <<"%">> \o HexCode(c)

QuoteChar(c) ==
    IF c \in Unreserved THEN <<c>>
    ELSE IF c = " " THEN <<"+">>
    ELSE <<"%">> \o HexCode(c)

\* urllib.parse.quote_plus(s)
RECURSIVE QuotePlus(_)
QuotePlus(s) ==
    IF s = <<>> THEN <<>> ELSE QuoteChar(Head(s)) \o QuotePlus(Tail(s))

\* urlencode({k: v}) of one key and one value: "k=v", both quoted.
EncodePair(k, v) == QuotePlus(k) \o <<"=">> \o QuotePlus(Str(v))

\* Variants of EmitOrder: last value first; the last value only (items()
\* in place of lists()).
RECURSIVE Reverse(_)
Reverse(vs) == IF vs = <<>> THEN <<>> ELSE Reverse(Tail(vs)) \o <<Head(vs)>>

EmitLastOnly(vs) == IF vs = <<>> THEN <<>> ELSE <<vs[Len(vs)]>>

\* The values of one entry in the order urlencode emits them.
EmitOrder(vs) == vs

RECURSIVE EncodeValues(_, _)
EncodeValues(k, vs) ==
    IF vs = <<>> THEN <<>>
    ELSE <<EncodePair(k, Head(vs))>> \o EncodeValues(k, Tail(vs))

\* for k, list_ in self.lists(): one "k=v" per value, in dict order.
RECURSIVE EncodedPairs(_)
EncodedPairs(d) ==
    IF d = <<>> THEN <<>>
    ELSE EncodeValues(Head(d).k, EmitOrder(Head(d).vs)) \o EncodedPairs(Tail(d))

\* "&".join(output)
RECURSIVE Join(_)
Join(parts) ==
    IF parts = <<>> THEN <<>>
    ELSE IF Len(parts) = 1 THEN parts[1]
    ELSE parts[1] \o <<"&">> \o Join(Tail(parts))

\* QueryDict.urlencode()
UrlEncode(d) == Join(EncodedPairs(d))

\* ---------------------------------------------------- query-string parse

\* s.split(sep): the pieces of s between the occurrences of sep.
RECURSIVE Split(_, _)
Split(s, sep) ==
    IF \A j \in 1..Len(s) : s[j] # sep THEN <<s>>
    ELSE LET p == CHOOSE j \in 1..Len(s) :
                      s[j] = sep /\ \A h \in 1..(j - 1) : s[h] # sep
         IN <<SubSeq(s, 1, p - 1)>> \o Split(SubSeq(s, p + 1, Len(s)), sep)

\* name_value.split("=", 1), with a blank value when there is no "=".
SplitPair(f) ==
    IF \A j \in 1..Len(f) : f[j] # "=" THEN <<f, <<>>>>
    ELSE LET p == CHOOSE j \in 1..Len(f) :
                      f[j] = "=" /\ \A h \in 1..(j - 1) : f[h] # "="
         IN <<SubSeq(f, 1, p - 1), SubSeq(f, p + 1, Len(f))>>

CharOfHex(h) == CHOOSE c \in Reserved : HexCode(c) = h

IsHex(h) == \E c \in Reserved : HexCode(c) = h

\* unquote(s.replace("+", " ")): "+" is a space, %XX is the character XX.
RECURSIVE UnquotePlus(_)
UnquotePlus(s) ==
    IF s = <<>> THEN <<>>
    ELSE IF s[1] = "+" THEN <<" ">> \o UnquotePlus(Tail(s))
    ELSE IF s[1] = "%" /\ Len(s) >= 3 /\ IsHex(<<s[2], s[3]>>)
         THEN <<CharOfHex(<<s[2], s[3]>>)>> \o UnquotePlus(SubSeq(s, 4, Len(s)))
    ELSE <<s[1]>> \o UnquotePlus(Tail(s))

\* parse_qsl(qs, keep_blank_values=True): empty fragments are skipped.
RECURSIVE ParsePairs(_)
ParsePairs(fs) ==
    IF fs = <<>> THEN <<>>
    ELSE LET nv == SplitPair(Head(fs))
         IN (IF Head(fs) = <<>> THEN <<>>
             ELSE << <<UnquotePlus(nv[1]), StrV(UnquotePlus(nv[2]))>> >>)
            \o ParsePairs(Tail(fs))

\* QueryDict(query_string): what a request's GET holds for that query string.
Decode(qs) == FromPairs(ParsePairs(Split(qs, "&")))


\* ------------------------------------------------------ query_transform

VARIABLES
    heap,      \* object identity -> QueryDict contents
    kwargs,    \* the keyword overrides, in the order they were passed
    updated,   \* the object the local `updated` is bound to ("unbound" before)
    i,         \* position of the for loop in kwargs.items()
    pc,        \* "start", "loop", "done", "error"
    result     \* the returned string (<<>> until the return)

vars == <<heap, kwargs, updated, i, pc, result>>

\* The QueryDict of the request, and the object its copy() creates.
RequestGET == "request.GET"
FreshObject == "copy"

\* Query strings of at most n pairs, as lists of (name, value).
PairLists(pairs, n) == UNION { [1..m -> pairs] : m \in 0..n }

\* Query strings in which each name occurs at most n times.
RepeatLists(ks, vals, n) ==
    { ps \in PairLists(ks \X vals, n * Cardinality(ks)) :
        \A k \in ks : Cardinality({ j \in 1..Len(ps) : ps[j][1] = k }) <= n }

\* Keyword arguments: each name at most once, in any order.
KwargsOver(items) ==
    { kw \in UNION { [1..m -> items] : m \in 0..Cardinality({ it[1] : it \in items }) } :
        \A a, b \in 1..Len(kw) : a # b => kw[a][1] # kw[b][1] }

InitWith(pairLists, kwargsSet) ==
    /\ \E ps \in pairLists :
          heap = [o \in {RequestGET, FreshObject} |->
                     IF o = RequestGET THEN FromPairs(ps) ELSE <<>>]
    /\ kwargs \in kwargsSet
    /\ updated = "unbound"
    /\ i = 1
    /\ pc = "start"
    /\ result = <<>>

\* The tag is called with any parsed query string and any keyword overrides:
\* short query strings over all names, query strings with repeated names, and
\* the query string and overrides of the docstring.
Init ==
    \/ InitWith(PairLists(Keys \X ReservedVals, MaxPairs), KwargsOver(Keys \X OverrideVals))
    \/ InitWith(RepeatLists(MultiKeys, ParamVals, MaxVals), KwargsOver(MultiKeys \X OverrideVals))
    \/ InitWith(PairLists(DocPairs, MaxPairs), KwargsOver(DocOverrides))

\* Variant of CopyOf: no copy is made (updated = request.GET).
CopyAlias(src) == src

\* The object request.GET.copy() returns: a new QueryDict.
CopyOf(src) == FreshObject

\* Variant of IsSet: truthiness (`if v:`) in place of `is not None`.
IsTruthy(v) ==
    /\ v # None
    /\ ~(v.t = "int" /\ v.n = 0)
    /\ ~(v.t = "bool" /\ v.n = 0)
    /\ ~(v.t = "str" /\ v.s = <<>>)

\* Whether the loop body takes the `updated[k] = v` branch.
IsSet(v) == v # None

\* updated = request.GET.copy()
Copy ==
    /\ pc = "start"
    /\ LET o == CopyOf(RequestGET)
       IN /\ heap' = [heap EXCEPT ![o] = heap[RequestGET]]
          /\ updated' = o
    /\ pc' = "loop"
    /\ UNCHANGED <<kwargs, i, result>>

\* for k, v in kwargs.items(): if v is not None: updated[k] = v
LoopSet ==
    /\ pc = "loop"
    /\ i <= Len(kwargs)
    /\ IsSet(kwargs[i][2])
    /\ heap' = [heap EXCEPT ![updated] = SetItem(@, kwargs[i][1], kwargs[i][2])]
    /\ i' = i + 1
    /\ UNCHANGED <<kwargs, updated, pc, result>>

\* for k, v in kwargs.items(): ... else: updated.pop(k, 0)
LoopPop ==
    /\ pc = "loop"
    /\ i <= Len(kwargs)
    /\ ~IsSet(kwargs[i][2])
    /\ IF PopRaises(heap[updated], kwargs[i][1], TRUE)
       THEN pc' = "error" /\ UNCHANGED <<heap, i>>
       ELSE /\ heap' = [heap EXCEPT ![updated] = Pop(@, kwargs[i][1])]
            /\ i' = i + 1
            /\ pc' = pc
    /\ UNCHANGED <<kwargs, updated, result>>

\* return updated.urlencode()
Return ==
    /\ pc = "loop"
    /\ i > Len(kwargs)
    /\ result' = UrlEncode(heap[updated])
    /\ pc' = "done"
    /\ UNCHANGED <<heap, kwargs, updated, i>>

Next == Copy \/ LoopSet \/ LoopPop \/ Return

Spec == Init /\ [][Next]_vars

\* The tag as a function of its inputs: the overrides kw applied in order to a
\* copy of d, url-encoded.
RECURSIVE ApplyOverrides(_, _)
ApplyOverrides(d, kw) ==
    IF kw = <<>> THEN d
    ELSE LET n == Len(kw)
             before == ApplyOverrides(d, SubSeq(kw, 1, n - 1))
         IN IF IsSet(kw[n][2]) THEN SetItem(before, kw[n][1], kw[n][2])
            ELSE Pop(before, kw[n][1])

QueryTransform(d, kw) == UrlEncode(ApplyOverrides(d, kw))

\* ------------------------------------------------------------ properties

Done == pc = "done"

\* The caller's parameters, the decoded output, and the output's raw pairs.
Params == heap[RequestGET]
Out == Decode(result)
OutPairs == ParsePairs(Split(result, "&"))

KwKeys == { kwargs[j][1] : j \in 1..Len(kwargs) }
SetKeys == { kwargs[j][1] : j \in { h \in 1..Len(kwargs) : kwargs[h][2] # None } }
RemovedKeys == { kwargs[j][1] : j \in { h \in 1..Len(kwargs) : kwargs[h][2] = None } }
KwVal(k) == kwargs[CHOOSE j \in 1..Len(kwargs) : kwargs[j][1] = k][2]

\* The single-value list a key overridden with v decodes to.
Single(v) == <<StrV(Str(v))>>

\* Equality of two QueryDicts as multi-maps: key order is not compared.
MapEq(a, b) ==
    /\ KeysOf(a) = KeysOf(b)
    /\ \A k \in KeysOf(a) : GetList(a, k) = GetList(b, k)

KeySeq(d) == [j \in 1..Len(d) |-> d[j].k]

\* The values of the raw output pairs named k, in output order.
PairValues(ps, k) ==
    LET sel == SelectSeq(ps, LAMBDA q : q[1] = k)
    IN [j \in 1..Len(sel) |-> sel[j][2]]

\* C1: with no None among the overrides, the decoded output maps every
\* overridden key to exactly the override's value as a string, and every key
\* of the parameters that is not overridden to the values it had.
C1_OverridesAndRestKept ==
    (Done /\ RemovedKeys = {}) =>
        /\ \A k \in SetKeys : GetList(Out, k) = Single(KwVal(k))
        /\ \A k \in KeysOf(Params) \ KwKeys :
              HasKey(Out, k) /\ GetList(Out, k) = GetList(Params, k)

C1_Witness ==
    /\ Done
    /\ RemovedKeys = {}
    /\ \E k \in SetKeys : KwVal(k).t = "int" /\ HasKey(Params, k)
    /\ KeysOf(Params) \ KwKeys # {}

\* C2: a key overridden with None does not appear in the decoded output,
\* whether or not it was a parameter and however many values it had.
C2_NoneKeyAbsent ==
    Done => \A k \in RemovedKeys : ~HasKey(Out, k) /\ PairValues(OutPairs, k) = <<>>

C2_Witness ==
    /\ Done
    /\ \E k \in RemovedKeys : Len(GetList(Params, k)) >= 2
    /\ \E k \in RemovedKeys : ~HasKey(Params, k)

\* C3: the keys of the output are exactly the parameters' keys not overridden
\* with None together with the keys overridden with a value, and each
\* overridden key carries exactly one value.
C3_KeySetExact ==
    Done =>
        /\ KeysOf(Out) = (KeysOf(Params) \ RemovedKeys) \cup SetKeys
        /\ \A k \in SetKeys : Len(PairValues(OutPairs, k)) = 1

C3_Witness ==
    /\ Done
    /\ RemovedKeys \cap KeysOf(Params) # {}
    /\ SetKeys \ KeysOf(Params) # {}
    /\ KeysOf(Params) \ KwKeys # {}

\* C4: no step of the tag changes the caller's request.GET; every change is
\* made to the copy.
C4_GetNeverMutated == [][heap'[RequestGET] = heap[RequestGET]]_vars

C4_Witness ==
    /\ Done
    /\ updated = FreshObject
    /\ \E k \in SetKeys : Len(GetList(Params, k)) >= 2
    /\ RemovedKeys \cap KeysOf(Params) # {}
    /\ heap[updated] # Params

\* C5: with no overrides the decoded output equals the parameters as a
\* multi-map, repeated names and the empty parameter set included.
C5_EmptyOverridesIdentity == (Done /\ kwargs = <<>>) => MapEq(Out, Params)

C5_Witness ==
    /\ Done
    /\ kwargs = <<>>
    /\ Cardinality(KeysOf(Params)) >= 2
    /\ \E k \in KeysOf(Params) : Len(GetList(Params, k)) >= 2

\* C6: transforming the decoded output again with no overrides gives a query
\* string that decodes to the same multi-map as the first output.
C6_Idempotent == Done => MapEq(Decode(QueryTransform(Out, <<>>)), Out)

C6_Witness ==
    /\ Done
    /\ SetKeys # {}
    /\ RemovedKeys # {}
    /\ \E k \in KeysOf(Out) : Len(GetList(Out, k)) >= 2

\* C7: an overridden key yields exactly one key=value pair in the output,
\* whatever number of values it had; a key with n values that no override
\* names yields exactly n pairs, one per original value.
C7_Multiplicity ==
    Done =>
        /\ \A k \in SetKeys : Len(PairValues(OutPairs, k)) = 1
        /\ \A k \in KeysOf(Params) \ KwKeys :
              PairValues(OutPairs, k) = GetList(Params, k)

C7_Witness ==
    /\ Done
    /\ \E k \in SetKeys : Len(GetList(Params, k)) >= 2
    /\ \E k \in KeysOf(Params) \ KwKeys : Len(GetList(Params, k)) >= 2

\* The characters of a url-encoded query string: unreserved characters, the
\* separators, "+" for a space, and "%" with its hex digits.
QueryChars == Unreserved \cup { "%", "+", "=", "&", "A", "B", "C", "D", "E" }

DocGET == FromPairs(<< <<foo, StrV(<<"1">>)>>, <<bar, StrV(<<"2">>)>> >>)

NewKeysInOrder ==
    LET new == SelectSeq(kwargs, LAMBDA it : it[2] # None /\ ~HasKey(Params, it[1]))
    IN [j \in 1..Len(new) |-> new[j][1]]

\* C9: the docstring's three examples come out in the documented order; in
\* general the output keeps the parameters' key order, an overridden key stays
\* where it was, and new keys follow in the overrides' order.
C9_OutputOrder ==
    Done =>
        /\ KeySeq(Out) =
              SelectSeq(KeySeq(Params), LAMBDA k : k \notin RemovedKeys) \o NewKeysInOrder
        /\ (Params = DocGET /\ kwargs = << <<bar, IntV(3)>> >>) =>
              result = foo \o <<"=", "1", "&">> \o bar \o <<"=", "3">>
        /\ (Params = DocGET /\ kwargs = << <<foo, StrV(baz)>> >>) =>
              result = foo \o <<"=">> \o baz \o <<"&">> \o bar \o <<"=", "2">>
        /\ (Params = DocGET
              /\ kwargs = << <<foo, StrV(<<"o", "n", "e">>)>>,
                             <<bar, StrV(<<"t", "w", "o">>)>>, <<baz, IntV(99)>> >>) =>
              result = foo \o <<"=", "o", "n", "e", "&">> \o bar
                          \o <<"=", "t", "w", "o", "&">> \o baz \o <<"=", "9", "9">>

C9_Witness ==
    /\ Done
    /\ Params = DocGET
    /\ kwargs = << <<foo, StrV(<<"o", "n", "e">>)>>,
                   <<bar, StrV(<<"t", "w", "o">>)>>, <<baz, IntV(99)>> >>

\* C10: a key is removed exactly when its override is None; every other
\* override value, the falsy 0, False and "" included, sets the key to that
\* single value.
C10_OnlyNoneRemoves ==
    Done =>
        \A j \in 1..Len(kwargs) :
            /\ HasKey(Out, kwargs[j][1]) <=> kwargs[j][2] # None
            /\ kwargs[j][2] # None => GetList(Out, kwargs[j][1]) = Single(kwargs[j][2])

C10_Witness ==
    /\ Done
    /\ { IntV(0), BoolV(FALSE), StrV(<<>>) } \subseteq { kwargs[j][2] : j \in 1..Len(kwargs) }
    /\ \E k \in SetKeys : Len(GetList(Params, k)) >= 2

====
